---- MODULE Spec2Model ----
(***************************************************************************)
(* Model of the solar-irradiance repository:                               *)
(*   app/utils.py           load_country_data, get_country_metrics         *)
(*   src/solar_analysis.py  SolarEDA (load, clean, analyses, export)       *)
(*                                                                         *)
(* Tables.  A table (pandas DataFrame) is a record                         *)
(*     [n |-> number of rows, col |-> [column name -> sequence of cells]]  *)
(* every column holding n cells.                                           *)
(* Cells.  A cell is a record [kind, v]:                                   *)
(*   "num"       the number v / Unit (fixed point, so that medians and     *)
(*               interpolated percentiles are exact integers);             *)
(*   "nan"       a missing value (an empty CSV field, NaN);                *)
(*   "text"      a string of the CSV: v >= 0 when it spells the time v,    *)
(*               v = -1 when it spells no time;                            *)
(*   "datetime"  the parsed time v;  "NaT" a time that failed to parse;    *)
(*   "month"     the name of month v.                                      *)
(* A time v counts the hours since 1677-09-21 00:00, the day the range of  *)
(* datetime64[ns] begins; the Unix epoch is the time Epoch.  Days and       *)
(* months are those of the Gregorian calendar.                             *)
(* Floating point is modelled by exact arithmetic.                         *)
(***************************************************************************)
EXTENDS Integers, Sequences, FiniteSets, TLC

VARIABLES
    data_dir,     \* app: the data folder, file name -> file content
    call,         \* app: the last call made and its arguments
    loaded,       \* app: outcome of the last call, when it was load_country_data
    metrics,      \* app: outcome of the last call, when it was get_country_metrics
    data_file,    \* the table the CSV file at SolarEDA.data_path holds
    df,           \* SolarEDA.df: <<>> (None) or <<the raw table>>
    df_clean,     \* SolarEDA.df_clean: <<>> (None) or <<the cleaned table>>
    report,       \* the outlier counts clean_data printed last, column -> count
    plots,        \* the image files saved under image_dir
    wind_rose,    \* the wind rose drawn last: <<>> or <<[wind, avg_ws]>>
    output_file,  \* the file at output_clean_path: <<>> or <<the table written>>
    pc            \* position of run_full_analysis ("idle": not running)

app_vars == <<data_dir, call, loaded, metrics>>
eda_vars == <<data_file, df, df_clean, report, plots, wind_rose, output_file, pc>>
vars == <<data_dir, call, loaded, metrics,
          data_file, df, df_clean, report, plots, wind_rose, output_file, pc>>

(***************************************************************************)
(* Bounds and fixed-point unit                                             *)
(***************************************************************************)
\* a numeric cell of value k denotes k / Unit: halves for the median of an even
\* count, hundredths for an interpolated percentile, and hundredths again for a
\* percentile of percentiles
Unit == 2 * 100 * 100
\* most data rows in a CSV file of the data folder
MaxCsvRows == 1
\* most countries a caller of get_country_metrics uploads a file for
MaxUploads == 1
\* most data rows of a raw table given to the cleaning stage
MaxRows == 3
\* data rows of a raw table given to run_full_analysis
PipelineRows == 2
\* data rows of a raw table loaded in a session of method calls
SessionRows == 2

(***************************************************************************)
(* Generic helpers                                                         *)
(***************************************************************************)
NaN == [kind |-> "nan", v |-> 0]
Num(k) == [kind |-> "num", v |-> k]
IsNaN(c) == c.kind = "nan"

Abs(x) == IF x < 0 THEN -x ELSE x

RECURSIVE GCD(_, _)
GCD(a, b) == IF b = 0 THEN Abs(a) ELSE GCD(b, a % b)

RECURSIVE SumSeq(_)
SumSeq(s) == IF s = <<>> THEN 0 ELSE Head(s) + SumSeq(Tail(s))

\* the non-missing values of a numeric column, in row order (Series.dropna)
RECURSIVE DropNa(_)
DropNa(s) ==
    IF s = <<>> THEN <<>>
    ELSE IF IsNaN(Head(s)) THEN DropNa(Tail(s))
    ELSE <<Head(s).v>> \o DropNa(Tail(s))

\* a float that need not be a multiple of 1/Unit: the reduced fraction
\* num / den of Unit-ths
Fraction(num, den) ==
    LET g == GCD(num, den) IN [kind |-> "num", num |-> num \div g, den |-> den \div g]
FractionNaN == [kind |-> "nan", num |-> 0, den |-> 1]

\* Series.mean(): the mean of the non-missing values, NaN when there is none
Mean(s) ==
    LET xs == DropNa(s) IN
    IF xs = <<>> THEN FractionNaN ELSE Fraction(SumSeq(xs), Len(xs))

EmptyFrame == [n |-> 0, col |-> <<>>]
Columns(t) == DOMAIN t.col
\* DataFrame.empty: some axis has length 0
IsEmpty(t) == t.n = 0 \/ Columns(t) = {}

(***************************************************************************)
(* app/utils.py                                                            *)
(***************************************************************************)
file_map ==
    [c \in {"Benin", "Sierra Leone", "Togo"} |->
        CASE c = "Benin" -> "benin_clean.csv"
          [] c = "Sierra Leone" -> "sierraleone_clean.csv"
          [] c = "Togo" -> "togo_clean.csv"]

countries == <<"Benin", "Sierra Leone", "Togo">>

FileNames == {file_map[c] : c \in DOMAIN file_map}

\* file contents: no file at the path, a zero-byte file, or CSV text with a
\* header line and n data rows
NoFile == [kind |-> "absent", table |-> EmptyFrame]
ZeroByteFile == [kind |-> "zero_byte", table |-> EmptyFrame]
CsvFile(t) == [kind |-> "csv", table |-> t]
\* no uploaded file (Python None)
None == [kind |-> "none", table |-> EmptyFrame]

\* the value row i of column c holds in the sample country files
SampleReading(c, i) ==
    LET base == CASE c = "GHI" -> 200 [] c = "DNI" -> 150
                  [] c = "DHI" -> 50 [] OTHER -> 25
    IN Num((base + 7 * i) * Unit)

SampleTable(cols, n) ==
    [n |-> n, col |-> [c \in cols |-> [i \in 1..n |-> SampleReading(c, i)]]]

CsvSchemas ==
    { {"GHI", "DNI", "DHI"}, {"GHI", "DNI", "DHI", "Tamb"}, {"GHI", "DNI", "Tamb"} }

CsvFiles == { CsvFile(SampleTable(cols, n)) : cols \in CsvSchemas, n \in 0..MaxCsvRows }

FileContents == {NoFile, ZeroByteFile} \cup CsvFiles

\* what a caller can pass as uploaded_file: nothing or an uploaded CSV file
Uploads ==
    { None,
      CsvFile(SampleTable({"GHI", "DNI", "DHI"}, 1)),
      CsvFile(SampleTable({"DNI", "DHI"}, 1)) }

\* what a caller can pass as uploaded_files
UploadDicts ==
    { d \in [DOMAIN file_map -> Uploads] :
        Cardinality({c \in DOMAIN file_map : d[c] # None}) <= MaxUploads }

CountryArgs == {"Benin", "Sierra Leone", "Togo", "Mars"}

\* outcome of a call: a returned value or a raised exception
Returned(v) == [ok |-> TRUE, exc |-> "", value |-> v]
Raised(e) == [ok |-> FALSE, exc |-> e, value |-> EmptyFrame]
NotCalled == [ok |-> FALSE, exc |-> "not called", value |-> EmptyFrame]

\* pd.read_csv on an open file: a file with no header line has no columns to
\* parse; otherwise the table of its rows
read_csv(f) ==
    IF f.kind = "csv" THEN Returned(f.table) ELSE Raised("EmptyDataError")

\* load_country_data with file_map.get(country): an unknown country is a missing file
load_country_data_get(country, dir, uploaded_file) ==
    IF uploaded_file # None THEN read_csv(uploaded_file)
    ELSE IF country \notin DOMAIN file_map THEN Returned(EmptyFrame)
    ELSE LET path == file_map[country] IN
         IF dir[path].kind # "absent" THEN read_csv(dir[path])
         ELSE Returned(EmptyFrame)

\* load_country_data without the os.path.exists test
load_country_data_unchecked(country, dir, uploaded_file) ==
    IF uploaded_file # None THEN read_csv(uploaded_file)
    ELSE IF country \notin DOMAIN file_map THEN Raised("KeyError")
    ELSE LET path == file_map[country] IN
         IF dir[path].kind # "absent" THEN read_csv(dir[path])
         ELSE Raised("FileNotFoundError")

\* the uploaded file, when given, is read before the country is looked at
load_country_data(country, dir, uploaded_file) ==
    IF uploaded_file # None THEN read_csv(uploaded_file)
    ELSE IF country \notin DOMAIN file_map THEN Raised("KeyError")
    ELSE LET path == file_map[country] IN
         IF dir[path].kind # "absent" THEN read_csv(dir[path])
         ELSE Returned(EmptyFrame)

\* df[["GHI", "DNI", "DHI"]].mean() with summary["country"] = c
IrradianceColumns == {"GHI", "DNI", "DHI"}

CountrySummary(t, c) ==
    [GHI |-> Mean(t.col["GHI"]), DNI |-> Mean(t.col["DNI"]),
     DHI |-> Mean(t.col["DHI"]), country |-> c]

MetricsFrame(rows) == [columns |-> <<"GHI", "DNI", "DHI", "country">>, rows |-> rows]

\* the loop over countries from position i on, results being the summaries
\* appended so far; an exception raised in the loop ends the call
RECURSIVE MetricsLoop(_, _, _, _)
MetricsLoop(i, results, dir, uploaded_files) ==
    IF i > Len(countries)
    THEN [ok |-> TRUE, exc |-> "", value |-> MetricsFrame(results)]
    ELSE LET c == countries[i]
             r == load_country_data(c, dir, uploaded_files[c])
         IN IF ~r.ok THEN [ok |-> FALSE, exc |-> r.exc, value |-> MetricsFrame(<<>>)]
            ELSE IF IsEmpty(r.value) THEN MetricsLoop(i + 1, results, dir, uploaded_files)
            ELSE IF ~(IrradianceColumns \subseteq Columns(r.value))
                 THEN [ok |-> FALSE, exc |-> "KeyError", value |-> MetricsFrame(<<>>)]
            ELSE MetricsLoop(i + 1, Append(results, CountrySummary(r.value, c)),
                             dir, uploaded_files)

\* get_country_metrics without the "if not df.empty" test: a country without
\* data gets a row of missing means
RECURSIVE ZeroFilledLoop(_, _, _, _)
ZeroFilledLoop(i, results, dir, uploaded_files) ==
    IF i > Len(countries)
    THEN [ok |-> TRUE, exc |-> "", value |-> MetricsFrame(results)]
    ELSE LET c == countries[i]
             r == load_country_data(c, dir, uploaded_files[c])
         IN IF ~r.ok THEN [ok |-> FALSE, exc |-> r.exc, value |-> MetricsFrame(<<>>)]
            ELSE IF IsEmpty(r.value)
                 THEN ZeroFilledLoop(i + 1,
                        Append(results, [GHI |-> FractionNaN, DNI |-> FractionNaN,
                                         DHI |-> FractionNaN, country |-> c]),
                        dir, uploaded_files)
            ELSE IF ~(IrradianceColumns \subseteq Columns(r.value))
                 THEN [ok |-> FALSE, exc |-> "KeyError", value |-> MetricsFrame(<<>>)]
            ELSE ZeroFilledLoop(i + 1, Append(results, CountrySummary(r.value, c)),
                                dir, uploaded_files)

get_country_metrics_zero_filled(dir, uploaded_files) ==
    ZeroFilledLoop(1, <<>>, dir, uploaded_files)

\* uploaded_files.get(c) is None for a country the dict does not hold, so the
\* dict is modelled as a total map to None or a file
get_country_metrics(dir, uploaded_files) == MetricsLoop(1, <<>>, dir, uploaded_files)

NoMetrics == [ok |-> FALSE, exc |-> "not called", value |-> MetricsFrame(<<>>)]
NoCall == [fn |-> "none", country |-> "", uploaded_file |-> None,
           uploaded_files |-> [c \in DOMAIN file_map |-> None]]

AppStart ==
    /\ call = NoCall
    /\ loaded = NotCalled
    /\ metrics = NoMetrics

\* SolarEDA.__init__
EdaStart ==
    /\ df = <<>>
    /\ df_clean = <<>>
    /\ report = <<>>
    /\ plots = {}
    /\ wind_rose = <<>>
    /\ output_file = <<>>
    /\ pc = "idle"

AppInit ==
    /\ data_dir \in [FileNames -> FileContents]
    /\ AppStart
    /\ data_file = EmptyFrame
    /\ EdaStart

LoadCountryData ==
    \E country \in CountryArgs, up \in Uploads :
        /\ call' = [fn |-> "load_country_data", country |-> country,
                    uploaded_file |-> up,
                    uploaded_files |-> [c \in DOMAIN file_map |-> None]]
        /\ loaded' = load_country_data(country, data_dir, up)
        /\ metrics' = NoMetrics
        /\ UNCHANGED <<data_dir, eda_vars>>

GetCountryMetrics ==
    \E ups \in UploadDicts :
        /\ call' = [fn |-> "get_country_metrics", country |-> "",
                    uploaded_file |-> None, uploaded_files |-> ups]
        /\ metrics' = get_country_metrics(data_dir, ups)
        /\ loaded' = NotCalled
        /\ UNCHANGED <<data_dir, eda_vars>>

AppNext == LoadCountryData \/ GetCountryMetrics

SpecApp == AppInit /\ [][AppNext]_vars

(***************************************************************************)
(* src/solar_analysis.py: the cleaning stage                               *)
(***************************************************************************)
Text(t) == [kind |-> "text", v |-> t]
DateTime(t) == [kind |-> "datetime", v |-> t]
NaT == [kind |-> "NaT", v |-> 0]

\* insertion of x into the ascending sequence s
RECURSIVE Insert(_, _)
Insert(x, s) ==
    IF s = <<>> THEN <<x>>
    ELSE IF x <= Head(s) THEN <<x>> \o s
    ELSE <<Head(s)>> \o Insert(x, Tail(s))

RECURSIVE SortAsc(_)
SortAsc(s) == IF s = <<>> THEN <<>> ELSE Insert(Head(s), SortAsc(Tail(s)))

\* select_dtypes(include=np.number): a column of a table with rows is numeric
\* when each of its cells is a number or missing
IsNumericColumn(s) == \A i \in 1..Len(s) : s[i].kind \in {"num", "nan"}

\* Series.median(): the median of the non-missing values, NaN when there is none
Median(s) ==
    LET xs == SortAsc(DropNa(s))
        n == Len(xs)
    IN IF n = 0 THEN NaN
       ELSE IF n % 2 = 1 THEN Num(xs[(n + 1) \div 2])
       ELSE Num((xs[n \div 2] + xs[n \div 2 + 1]) \div 2)

\* Series.fillna(value): a NaN value fills nothing
FillNa(s, value) ==
    [i \in 1..Len(s) |-> IF IsNaN(s[i]) /\ ~IsNaN(value) THEN value ELSE s[i]]

\* the imputation with fillna(0)
ImputeZero(t) ==
    [n |-> t.n,
     col |-> [c \in Columns(t) |->
                IF IsNumericColumn(t.col[c]) THEN FillNa(t.col[c], Num(0))
                ELSE t.col[c]]]

\* lines 94-95: every numeric column has its missing cells set to its median
Impute(t) ==
    [n |-> t.n,
     col |-> [c \in Columns(t) |->
                IF IsNumericColumn(t.col[c]) THEN FillNa(t.col[c], Median(t.col[c]))
                ELSE t.col[c]]]

\* the days from 1677-09-21 to the Unix epoch 1970-01-01, and the epoch's time
EpochDays == 102 + 292 * 365 + 70
Epoch == EpochDays * 24

\* a float cast to whole nanoseconds: the fraction is cut off, towards zero
Nanoseconds(k) == IF k >= 0 THEN k \div Unit ELSE -((-k) \div Unit)

\* a < b for triples <<hours, seconds, nanoseconds>>
Earlier(a, b) ==
    \/ a[1] < b[1]
    \/ a[1] = b[1] /\ a[2] < b[2]
    \/ a[1] = b[1] /\ a[2] = b[2] /\ a[3] < b[3]

\* a count of nanoseconds as whole hours, seconds of the hour and nanoseconds
\* of the second since the epoch
HoursSecondsNanos(ns) ==
    LET secs == ns \div (1000 * 1000 * 1000)
    IN <<secs \div 3600, secs % 3600, ns % (1000 * 1000 * 1000)>>

\* the times datetime64[ns] holds, as triples since the epoch: those an int64 of
\* nanoseconds strictly between -2^63 (which stands for NaT) and 2^63 counts
InRange(t) ==
    /\ Earlier(<<-2562048, 763, 145224192>>, t)
    /\ Earlier(t, <<2562047, 2836, 854775808>>)

\* a count of nanoseconds that is a time of datetime64[ns]
InDatetimeRange(ns) == InRange(HoursSecondsNanos(ns))

\* a text that spells a time of datetime64[ns]: Text(v) spells hour v, on the
\* hour; a time spelt outside the range is out of bounds and coerced to NaT
SpellsDatetime(v) == v >= 0 /\ InRange(<<v - Epoch, 0, 0>>)

\* a parser that takes text alone: a time already parsed becomes NaT
to_datetime_text_only(c) ==
    IF c.kind = "text" /\ SpellsDatetime(c.v) THEN DateTime(c.v) ELSE NaT

\* pd.to_datetime(errors='coerce') on one cell: text is parsed, a number is
\* read as nanoseconds since the epoch, and both give NaT outside the range
\* of datetime64[ns]; a missing value gives NaT
to_datetime(c) ==
    IF c.kind = "datetime" THEN c
    ELSE IF c.kind = "text" /\ SpellsDatetime(c.v) THEN DateTime(c.v)
    ELSE IF c.kind = "num" /\ InDatetimeRange(Nanoseconds(c.v))
    THEN DateTime(Epoch + HoursSecondsNanos(Nanoseconds(c.v))[1])
    ELSE NaT

\* the rows of s at the positions keep holds, in order
RECURSIVE KeepRows(_, _, _)
KeepRows(s, keep, i) ==
    IF i > Len(s) THEN <<>>
    ELSE IF i \in keep THEN <<s[i]>> \o KeepRows(s, keep, i + 1)
    ELSE KeepRows(s, keep, i + 1)

\* lines 98-100: the Timestamp column is parsed and the rows it is NaT in dropped
ParseTimestamps(t) ==
    IF "Timestamp" \notin Columns(t) THEN t
    ELSE LET parsed == [i \in 1..t.n |-> to_datetime(t.col["Timestamp"][i])]
             keep == {i \in 1..t.n : parsed[i].kind # "NaT"}
         IN [n |-> Cardinality(keep),
             col |-> [c \in Columns(t) |->
                        KeepRows(IF c = "Timestamp" THEN parsed ELSE t.col[c], keep, 1)]]

outlier_cols == <<"GHI", "DNI", "DHI", "ModA", "ModB", "WS", "WSgust">>
OutlierColumns == {outlier_cols[i] : i \in DOMAIN outlier_cols}

\* Series.quantile(q / 100), linear interpolation between the two order
\* statistics around position (n - 1) * q / 100 of the non-missing values:
\* xs[lo] + (xs[lo + 1] - xs[lo]) * frac / 100, rounded to the nearest 1 / Unit.
\* The difference is multiplied in two parts, hundreds and rest, to keep the
\* products small
Quantile(s, q) ==
    LET xs == SortAsc(DropNa(s))
        n == Len(xs)
        pos == (n - 1) * q
        lo == pos \div 100 + 1
        frac == pos % 100
        diff == IF frac = 0 THEN 0 ELSE xs[lo + 1] - xs[lo]
    IN IF n = 0 THEN NaN
       ELSE Num(xs[lo] + (diff \div 100) * frac + ((diff % 100) * frac + 50) \div 100)

RECURSIVE GCDSeq(_)
GCDSeq(s) == IF s = <<>> THEN 0 ELSE GCD(Head(s), GCDSeq(Tail(s)))

\* the scores of a column, as exact numbers: with d[i] = n * x[i] - sum(x),
\* z[i]^2 = n * d[i]^2 / sum(d^2).  The d are divided by their common divisor to
\* keep the squares small: e are the deviations, ss the sum of their squares
Scores(s) ==
    LET xs == DropNa(s)
        n == Len(xs)
        total == SumSeq(xs)
        d == [i \in 1..n |-> n * xs[i] - total]
        g == GCDSeq(d)
        e == [i \in 1..n |-> IF g = 0 THEN 0 ELSE d[i] \div g]
    IN [xs |-> xs, n |-> n, total |-> total, g |-> g, e |-> e,
        ss |-> SumSeq([i \in 1..n |-> e[i] * e[i]])]

\* float64 computes a score of exactly 3 without rounding when the values and
\* their mean are whole numbers and the standard deviation, a third of the
\* value's deviation, is one too
ScoredWithoutRounding(z, i) ==
    /\ \A j \in 1..z.n : z.xs[j] % Unit = 0
    /\ z.total % (z.n * Unit) = 0
    /\ (z.xs[i] - z.total \div z.n) % (3 * Unit) = 0

\* the counts with the squared score compared to 3: z^2 > 3
ZScoreOutliersSquared(s) ==
    LET z == Scores(s)
    IN {Cardinality({i \in 1..z.n : z.n * z.e[i] * z.e[i] > 3 * z.ss})}

\* (np.abs(stats.zscore(x)) > 3).sum(): z = (x - mean) / std, std the population
\* standard deviation, computed in float64.  The counts the column can give: a
\* score beyond 3 counts, a score of exactly 3 does not when it is computed
\* without rounding and may fall on either side when it is rounded.  A column of
\* equal values has std 0 and z = NaN, which is not > 3
ZScoreOutliers(s) ==
    LET z == Scores(s)
        beyond == {i \in 1..z.n : z.n * z.e[i] * z.e[i] > 9 * z.ss}
        rounded == {i \in 1..z.n : /\ z.ss > 0
                                   /\ z.n * z.e[i] * z.e[i] = 9 * z.ss
                                   /\ ~ScoredWithoutRounding(z, i)}
    IN {Cardinality(beyond) + k : k \in 0..Cardinality(rounded)}

\* np.clip(series, lower, upper): a missing cell stays missing, a NaN bound
\* clips nothing
ClipCell(c, lower, upper) ==
    IF IsNaN(c) \/ IsNaN(lower) \/ IsNaN(upper) THEN c
    ELSE IF c.v < lower.v THEN lower
    ELSE IF c.v > upper.v THEN upper
    ELSE c

\* a clip that applies the lower bound alone
ClipLower(s, lower, upper) == [i \in 1..Len(s) |-> ClipCell(s[i], lower, s[i])]

Clip(s, lower, upper) == [i \in 1..Len(s) |-> ClipCell(s[i], lower, upper)]

\* lines 104-109: the columns of outlier_cols the table has are clipped to their
\* 1st and 99th percentile (each column's clipping reads that column alone)
ClipOutliers(t) ==
    [n |-> t.n,
     col |-> [c \in Columns(t) |->
                IF c \in OutlierColumns
                THEN Clip(t.col[c], Quantile(t.col[c], 1), Quantile(t.col[c], 99))
                ELSE t.col[c]]]

\* the reports that give each column of cols one of its counts
RECURSIVE ReportsOver(_, _)
ReportsOver(t, cols) ==
    IF cols = {} THEN {<<>>}
    ELSE LET c == CHOOSE x \in cols : TRUE
         IN {(c :> k) @@ r : k \in ZScoreOutliers(t.col[c]),
                              r \in ReportsOver(t, cols \ {c})}

\* lines 106-108: the counts printed, taken before the column is clipped
OutlierReport(t) == ReportsOver(t, Columns(t) \cap OutlierColumns)

\* the table as clean_data holds it when it starts on the outlier columns
BeforeClip(raw) == ParseTimestamps(Impute(raw))

\* the cleaned table, and the reports clean_data can print with it
clean_data(raw) ==
    [table |-> ClipOutliers(BeforeClip(raw)), reports |-> OutlierReport(BeforeClip(raw))]

(***************************************************************************)
(* Raw tables given to the cleaning stage                                  *)
(***************************************************************************)
\* a column of n cells, or <<>> for a column the table does not have
OptionalColumns(cells, n) == {<<>>} \cup [1..n -> cells]

TimestampCells == {Text(5), Text(-1), NaN}
\* a Timestamp column of numbers: the epoch and the nanosecond before it
EpochCells == {Num(0), Num(-Unit), NaN}
GHICells == {NaN, Num(0), Num(10 * Unit)}

\* Tamb is read by the imputation alone: its columns are k missing cells followed
\* by readings 3, 8, 3, ...
TambColumns(n) ==
    {<<>>} \cup
    { [i \in 1..n |-> IF i <= k THEN NaN ELSE Num((3 + 5 * ((i - k + 1) % 2)) * Unit)] :
        k \in 0..n }

MakeTable(n, ts, ghi, tamb) ==
    LET present == (IF ts = <<>> THEN {} ELSE {"Timestamp"})
                   \cup (IF ghi = <<>> THEN {} ELSE {"GHI"})
                   \cup (IF tamb = <<>> THEN {} ELSE {"Tamb"})
    IN [n |-> n,
        col |-> [c \in present |->
                   CASE c = "Timestamp" -> ts [] c = "GHI" -> ghi [] OTHER -> tamb]]

\* t is a table of 1..MaxRows rows with some of the columns Timestamp, GHI, Tamb
IsGeneratedTable(t) ==
    \E n \in 1..MaxRows :
        \E ts \in OptionalColumns(TimestampCells, n) \cup [1..n -> EpochCells],
           ghi \in OptionalColumns(GHICells, n),
           tamb \in TambColumns(n) :
            /\ <<ts, ghi, tamb>> # <<<<>>, <<>>, <<>>>>
            /\ t = MakeTable(n, ts, ghi, tamb)

\* GHI = [100, 100, 100, 100, 10000]
ExampleGHI == [i \in 1..5 |-> IF i = 5 THEN Num(10000 * Unit) ELSE Num(100 * Unit)]
ExampleTable == [n |-> 5, col |-> [c \in {"GHI"} |-> ExampleGHI]]
\* ten readings of 100 and one of 1000
LongGHI == [i \in 1..11 |-> IF i = 11 THEN Num(1000 * Unit) ELSE Num(100 * Unit)]
LongTable == [n |-> 11, col |-> [c \in {"GHI"} |-> LongGHI]]
\* nine readings of 5 and one of 6 (mean 5.1), nine of 100 and one of 400 (mean
\* 130): the last reading lies exactly three standard deviations from the mean
EdgeGHI(low, high) == [i \in 1..10 |-> IF i = 10 THEN Num(high * Unit) ELSE Num(low * Unit)]
EdgeTable == [n |-> 10, col |-> [c \in {"GHI"} |-> EdgeGHI(5, 6)]]
WholeEdgeTable == [n |-> 10, col |-> [c \in {"GHI"} |-> EdgeGHI(100, 400)]]

\* the seven columns of outlier_cols, three rows each
WideTable ==
    [n |-> 3,
     col |-> [c \in {"GHI", "DNI", "DHI", "ModA", "ModB", "WS", "WSgust"} |->
                [i \in 1..3 |-> SampleReading(c, i * i)]]]

\* timestamps spelt at the two ends of datetime64[ns]: 1677-09-21 00:00 (before
\* the first time), 01:00, 2262-04-11 23:00 and 2262-04-12 00:00 (after the last)
RangeTimestamps == <<Text(0), Text(1), Text(2 * Epoch - 1), Text(2 * Epoch)>>
RangeTable ==
    [n |-> 4,
     col |-> [c \in {"Timestamp", "GHI"} |->
                IF c = "Timestamp" THEN RangeTimestamps
                ELSE [i \in 1..4 |-> Num(i * Unit)]]]

IsCleanInput(t) ==
    \/ IsGeneratedTable(t)
    \/ t \in {ExampleTable, LongTable, WideTable, EdgeTable, WholeEdgeTable,
              RangeTable}

(***************************************************************************)
(* SolarEDA methods as actions                                             *)
(***************************************************************************)
\* load_data: self.df = pd.read_csv(self.data_path)
LoadData ==
    /\ pc = "idle"
    /\ df' = <<data_file>>
    /\ UNCHANGED <<app_vars, data_file, wind_rose, df_clean, report, plots, output_file, pc>>

CleanData ==
    /\ pc = "idle"
    /\ df # <<>>
    /\ df_clean' = <<clean_data(df[1]).table>>
    /\ report' \in clean_data(df[1]).reports
    /\ UNCHANGED <<app_vars, data_file, wind_rose, df, plots, output_file, pc>>

CleanInit ==
    /\ data_dir = [f \in FileNames |-> NoFile]
    /\ AppStart
    /\ IsCleanInput(data_file)
    /\ EdaStart

CleanNext == LoadData \/ CleanData

SpecClean == CleanInit /\ [][CleanNext]_vars

(***************************************************************************)
(* src/solar_analysis.py: the analyses.  Each is modelled by the image     *)
(* files it saves through show_and_save_plot.                              *)
(***************************************************************************)
\* time_series_analysis
time_series_analysis(t) ==
    IF "Timestamp" \notin Columns(t) THEN {}
    ELSE {"time_series_" \o c \o ".png" : c \in {"GHI", "DNI", "DHI", "Tamb"} \cap Columns(t)}

\* cleaning_impact_analysis
cleaning_impact_analysis(t) ==
    IF ~({"Cleaning", "ModA", "ModB"} \subseteq Columns(t)) THEN {}
    ELSE {"cleaning_impact.png"}

scatter_pairs == {<<"WS", "GHI">>, <<"WSgust", "GHI">>, <<"RH", "Tamb">>, <<"RH", "GHI">>}

\* correlation_analysis
correlation_analysis(t) ==
    LET corr_cols == {"GHI", "DNI", "DHI", "TModA", "TModB", "Tamb", "RH", "WS"}
                         \cap Columns(t)
    IN (IF corr_cols # {} THEN {"correlation_heatmap.png"} ELSE {})
       \cup {"scatter_" \o xy[1] \o "_vs_" \o xy[2] \o ".png" :
                xy \in {q \in scatter_pairs : {q[1], q[2]} \subseteq Columns(t)}}

\* distribution_analysis
distribution_analysis(t) ==
    {"hist_" \o c \o ".png" : c \in {"GHI", "WS"} \cap Columns(t)}
    \cup (IF {"WS", "WD"} \subseteq Columns(t) THEN {"wind_rose.png"} ELSE {})

\* np.arange(start, stop, step) for integers: start, start + step, ... below stop
arange(start, stop, step) ==
    [k \in 1..((stop - start + step - 1) \div step) |-> start + (k - 1) * step]

\* line 178: the bin edges of the wind rose, in degrees
bins == arange(0, 360, 30)

\* a cell of a column pd.cut returns: the interval (left, right] of degrees
Interval(left, right) == [kind |-> "interval", left |-> left, right |-> right]

\* pd.cut(x, bins=edges, include_lowest=True) on one cell: the intervals are
\* (edges[j], edges[j+1]], the first one holding edges[1] too; a value in none
\* of them, or a missing one, gets NaN
cut(x, edges) ==
    LET holds == {j \in 1..(Len(edges) - 1) :
                    /\ \/ edges[j] * Unit < x.v
                       \/ j = 1 /\ edges[j] * Unit = x.v
                    /\ x.v <= edges[j + 1] * Unit}
    IN IF IsNaN(x) \/ holds = {} THEN NaN
       ELSE LET j == CHOOSE k \in holds : TRUE IN Interval(edges[j], edges[j + 1])

\* the categories of pd.cut(..., bins=edges), in order
Categories(edges) == [j \in 1..(Len(edges) - 1) |-> Interval(edges[j], edges[j + 1])]

\* lines 177-179: the rows of the cleaned table with a wind speed and a wind
\* direction, and the bin of each
wind(t) ==
    LET keep == {i \in 1..t.n : ~IsNaN(t.col["WS"][i]) /\ ~IsNaN(t.col["WD"][i])}
        ws == KeepRows(t.col["WS"], keep, 1)
        wd == KeepRows(t.col["WD"], keep, 1)
    IN [n |-> Len(ws),
        col |-> [c \in {"WS", "WD", "WD_bin"} |->
                    IF c = "WS" THEN ws
                    ELSE IF c = "WD" THEN wd
                    ELSE [i \in 1..Len(wd) |-> cut(wd[i], bins)]]]

\* line 180: wind.groupby('WD_bin')['WS'].mean(): one mean for each category
\* (a categorical key is grouped with observed=False), NaN where the category
\* has no row; a row whose WD_bin is NaN is in no group
avg_ws(w) ==
    LET cats == Categories(bins)
        group(j) == {i \in 1..w.n : w.col["WD_bin"][i] = cats[j]}
    IN [j \in 1..Len(cats) |->
          [bin |-> cats[j], rows |-> group(j),
           mean |-> Mean(KeepRows(w.col["WS"], group(j), 1))]]

\* lines 175-189: what the wind rose is drawn from; nothing is drawn without
\* both wind columns
WindRose(t) ==
    IF {"WS", "WD"} \subseteq Columns(t)
    THEN <<[wind |-> wind(t), avg_ws |-> avg_ws(wind(t))]>>
    ELSE <<>>

\* temperature_analysis
temperature_analysis(t) ==
    IF {"RH", "Tamb", "GHI"} \subseteq Columns(t) THEN {"RH_Tamb_GHI_effect.png"} ELSE {}

\* bubble_chart
bubble_chart(t) ==
    IF {"GHI", "Tamb", "RH", "BP"} \subseteq Columns(t)
    THEN {"bubble_GHI_Tamb_RH_BP.png"} ELSE {}

\* the month, 1 to 12, of the day z days after 0000-03-01 (Gregorian calendar)
MonthOfDay(z) ==
    LET doe == z % 146097
        yoe == (doe - doe \div 1460 + doe \div 36524 - doe \div 146096) \div 365
        doy == doe - (365 * yoe + yoe \div 4 - yoe \div 100)
        mp == (5 * doy + 2) \div 153
    IN IF mp < 10 THEN mp + 3 ELSE mp - 9

\* Series.dt.month_name() and Series.dt.hour on one cell
month_name(c) ==
    [kind |-> "month", v |-> MonthOfDay(c.v \div 24 - EpochDays + 719468)]
hour(c) == Num((c.v % 24) * Unit)

\* df[name] = values: the column is added, or replaced when the table has it
SetColumn(t, name, values) ==
    [n |-> t.n,
     col |-> [c \in Columns(t) \cup {name} |-> IF c = name THEN values ELSE t.col[c]]]

\* lines 223-224
AddMonthHour(t) ==
    LET ts == t.col["Timestamp"]
        withMonth == SetColumn(t, "Month", [i \in 1..t.n |-> month_name(ts[i])])
    IN SetColumn(withMonth, "Hour", [i \in 1..t.n |-> hour(ts[i])])

\* monthly_hourly_analysis: without a Timestamp column nothing is done; with
\* one, Month and Hour are set and groupby(...)[['GHI','DNI','DHI','Tamb']]
\* selects the four columns, a KeyError when the table lacks one of them
monthly_hourly_analysis(t) ==
    IF "Timestamp" \notin Columns(t)
    THEN [ok |-> TRUE, table |-> t, plots |-> {}]
    ELSE IF ~({"GHI", "DNI", "DHI", "Tamb"} \subseteq Columns(AddMonthHour(t)))
    THEN [ok |-> FALSE, table |-> AddMonthHour(t), plots |-> {}]
    ELSE [ok |-> TRUE, table |-> AddMonthHour(t),
          plots |-> {"monthly_trends.png", "hourly_trends.png"}]

\* DataFrame.to_csv on one cell: a time is written as text, NaT as an empty field
to_csv_cell(c) ==
    IF c.kind = "datetime" THEN Text(c.v)
    ELSE IF c.kind = "NaT" THEN NaN
    ELSE c

to_csv(t) ==
    [n |-> t.n, col |-> [c \in Columns(t) |-> [i \in 1..t.n |-> to_csv_cell(t.col[c][i])]]]

(***************************************************************************)
(* Raw tables given to run_full_analysis: the columns of the test fixture  *)
(***************************************************************************)
FixtureColumns ==
    {"Timestamp", "GHI", "DNI", "DHI", "Tamb", "RH", "WS", "WD", "BP",
     "Cleaning", "ModA", "ModB", "WSgust"}

FixtureCell(c, i) ==
    IF c = "Timestamp" THEN Text(24 * (i - 1) + i)
    ELSE IF c = "Cleaning" THEN Num((i % 2) * Unit)
    ELSE SampleReading(c, i)

FixtureTable(cols) ==
    [n |-> PipelineRows,
     col |-> [c \in cols |-> [i \in 1..PipelineRows |-> FixtureCell(c, i)]]]

(***************************************************************************)
(* run_full_analysis, one action for each method it calls                  *)
(***************************************************************************)
RunFullAnalysis ==
    /\ pc = "idle"
    /\ pc' = "load_data"
    /\ UNCHANGED <<app_vars, data_file, wind_rose, df, df_clean, report, plots, output_file>>

RunLoadData ==
    /\ pc = "load_data"
    /\ df' = <<data_file>>
    /\ pc' = "summary_statistics"
    /\ UNCHANGED <<app_vars, data_file, wind_rose, df_clean, report, plots, output_file>>

\* summary_statistics prints and changes nothing
RunSummaryStatistics ==
    /\ pc = "summary_statistics"
    /\ pc' = "clean_data"
    /\ UNCHANGED <<app_vars, data_file, wind_rose, df, df_clean, report, plots, output_file>>

RunCleanData ==
    /\ pc = "clean_data"
    /\ df_clean' = <<clean_data(df[1]).table>>
    /\ report' \in clean_data(df[1]).reports
    /\ pc' = "time_series_analysis"
    /\ UNCHANGED <<app_vars, data_file, wind_rose, df, plots, output_file>>

\* a plotting method saved the files in saved
Plotted(saved, next) ==
    /\ plots' = plots \cup saved
    /\ pc' = next
    /\ UNCHANGED <<app_vars, data_file, wind_rose, df, df_clean, report, output_file>>

RunTimeSeries ==
    /\ pc = "time_series_analysis"
    /\ Plotted(time_series_analysis(df_clean[1]), "cleaning_impact_analysis")

RunCleaningImpact ==
    /\ pc = "cleaning_impact_analysis"
    /\ Plotted(cleaning_impact_analysis(df_clean[1]), "correlation_analysis")

RunCorrelation ==
    /\ pc = "correlation_analysis"
    /\ Plotted(correlation_analysis(df_clean[1]), "distribution_analysis")

\* the wind rose drawn before stays when the table has no wind columns
RunDistribution ==
    /\ pc = "distribution_analysis"
    /\ plots' = plots \cup distribution_analysis(df_clean[1])
    /\ wind_rose' = IF WindRose(df_clean[1]) = <<>> THEN wind_rose
                    ELSE WindRose(df_clean[1])
    /\ pc' = "temperature_analysis"
    /\ UNCHANGED <<app_vars, data_file, df, df_clean, report, output_file>>

RunTemperature ==
    /\ pc = "temperature_analysis"
    /\ Plotted(temperature_analysis(df_clean[1]), "bubble_chart")

RunBubbleChart ==
    /\ pc = "bubble_chart"
    /\ Plotted(bubble_chart(df_clean[1]), "monthly_hourly_analysis")

\* an exception leaves run_full_analysis: the methods after it are not called
RunMonthlyHourly ==
    /\ pc = "monthly_hourly_analysis"
    /\ LET r == monthly_hourly_analysis(df_clean[1]) IN
        /\ df_clean' = <<r.table>>
        /\ plots' = plots \cup r.plots
        /\ pc' = IF r.ok THEN "save_cleaned_data" ELSE "raised"
    /\ UNCHANGED <<app_vars, data_file, wind_rose, df, report, output_file>>

RunSaveCleanedData ==
    /\ pc = "save_cleaned_data"
    /\ output_file' = <<to_csv(df_clean[1])>>
    /\ pc' = "done"
    /\ UNCHANGED <<app_vars, data_file, wind_rose, df, df_clean, report, plots>>

PipelineInit ==
    /\ data_dir = [f \in FileNames |-> NoFile]
    /\ AppStart
    /\ \E cols \in SUBSET FixtureColumns :
        /\ cols # {}
        /\ data_file = FixtureTable(cols)
    /\ EdaStart

PipelineNext ==
    \/ RunFullAnalysis
    \/ RunLoadData
    \/ RunSummaryStatistics
    \/ RunCleanData
    \/ RunTimeSeries
    \/ RunCleaningImpact
    \/ RunCorrelation
    \/ RunDistribution
    \/ RunTemperature
    \/ RunBubbleChart
    \/ RunMonthlyHourly
    \/ RunSaveCleanedData

SpecPipeline == PipelineInit /\ [][PipelineNext]_vars

(***************************************************************************)
(* A session on one SolarEDA object: its methods called one at a time, in  *)
(* any order.  Each method is an operator on the object's fields           *)
(*     [df, df_clean, report, plots, wind_rose, output_file]               *)
(* and the action of a call assigns every field from the method's result.  *)
(* A method called before the table it reads exists raises on None and     *)
(* changes nothing: the guards of the actions leave those calls out.       *)
(***************************************************************************)
Self ==
    [df |-> df, df_clean |-> df_clean, report |-> report, plots |-> plots,
     wind_rose |-> wind_rose, output_file |-> output_file]

\* load_data
SolarEDA_load_data(self, file) == [self EXCEPT !.df = <<file>>]

\* summary_statistics prints describe() and the missing counts of self.df
SolarEDA_summary_statistics(self) == self

\* clean_data run on self.df itself (self.df_clean = self.df, no copy): the two
\* fields name one table, which the cleaning steps then write to
SolarEDA_clean_data_in_place(self, printed) ==
    [self EXCEPT !.df = <<clean_data(self.df[1]).table>>,
                 !.df_clean = <<clean_data(self.df[1]).table>>,
                 !.report = printed]

\* clean_data: line 91 copies self.df, every later line writes to the copy;
\* printed is the report of outlier counts it prints
SolarEDA_clean_data(self, printed) ==
    [self EXCEPT !.df_clean = <<clean_data(self.df[1]).table>>,
                 !.report = printed]

SolarEDA_time_series_analysis(self) ==
    [self EXCEPT !.plots = @ \cup time_series_analysis(self.df_clean[1])]

SolarEDA_cleaning_impact_analysis(self) ==
    [self EXCEPT !.plots = @ \cup cleaning_impact_analysis(self.df_clean[1])]

SolarEDA_correlation_analysis(self) ==
    [self EXCEPT !.plots = @ \cup correlation_analysis(self.df_clean[1])]

SolarEDA_distribution_analysis(self) ==
    [self EXCEPT !.plots = @ \cup distribution_analysis(self.df_clean[1]),
                 !.wind_rose = IF WindRose(self.df_clean[1]) = <<>> THEN @
                               ELSE WindRose(self.df_clean[1])]

SolarEDA_temperature_analysis(self) ==
    [self EXCEPT !.plots = @ \cup temperature_analysis(self.df_clean[1])]

SolarEDA_bubble_chart(self) ==
    [self EXCEPT !.plots = @ \cup bubble_chart(self.df_clean[1])]

\* monthly_hourly_analysis: the columns are set before groupby can raise
SolarEDA_monthly_hourly_analysis(self) ==
    [self EXCEPT !.df_clean = <<monthly_hourly_analysis(self.df_clean[1]).table>>,
                 !.plots = @ \cup monthly_hourly_analysis(self.df_clean[1]).plots]

SolarEDA_save_cleaned_data(self) ==
    [self EXCEPT !.output_file = <<to_csv(self.df_clean[1])>>]

\* the object's fields after a call
Becomes(after) ==
    /\ df' = after.df
    /\ df_clean' = after.df_clean
    /\ report' = after.report
    /\ plots' = after.plots
    /\ wind_rose' = after.wind_rose
    /\ output_file' = after.output_file
    /\ UNCHANGED <<app_vars, data_file, pc>>

CallLoadData ==
    /\ pc = "idle"
    /\ Becomes(SolarEDA_load_data(Self, data_file))

CallSummaryStatistics ==
    /\ pc = "idle"
    /\ df # <<>>
    /\ Becomes(SolarEDA_summary_statistics(Self))

CallCleanData ==
    /\ pc = "idle"
    /\ df # <<>>
    /\ \E printed \in clean_data(df[1]).reports :
        Becomes(SolarEDA_clean_data(Self, printed))

CallTimeSeries ==
    /\ pc = "idle"
    /\ df_clean # <<>>
    /\ Becomes(SolarEDA_time_series_analysis(Self))

CallCleaningImpact ==
    /\ pc = "idle"
    /\ df_clean # <<>>
    /\ Becomes(SolarEDA_cleaning_impact_analysis(Self))

CallCorrelation ==
    /\ pc = "idle"
    /\ df_clean # <<>>
    /\ Becomes(SolarEDA_correlation_analysis(Self))

CallDistribution ==
    /\ pc = "idle"
    /\ df_clean # <<>>
    /\ Becomes(SolarEDA_distribution_analysis(Self))

CallTemperature ==
    /\ pc = "idle"
    /\ df_clean # <<>>
    /\ Becomes(SolarEDA_temperature_analysis(Self))

CallBubbleChart ==
    /\ pc = "idle"
    /\ df_clean # <<>>
    /\ Becomes(SolarEDA_bubble_chart(Self))

CallMonthlyHourly ==
    /\ pc = "idle"
    /\ df_clean # <<>>
    /\ Becomes(SolarEDA_monthly_hourly_analysis(Self))

CallSaveCleanedData ==
    /\ pc = "idle"
    /\ df_clean # <<>>
    /\ Becomes(SolarEDA_save_cleaned_data(Self))

\* Raw tables of a session: a choice of the fixture's columns, with or without
\* columns that carry the names Month and Hour already, and wind directions
\* from the whole compass
SessionColumns ==
    { FixtureColumns, {"Timestamp", "GHI", "WS", "WD"}, {"GHI", "Tamb", "WS"} }

\* wind directions in degrees, row i of table k reading the (i + k)-th in turn
WDReadings == <<0, 15, 330, 345, 360, 30>>

SessionCell(c, i, k) ==
    IF c = "WD" THEN Num(WDReadings[((i + k) % Len(WDReadings)) + 1] * Unit)
    ELSE FixtureCell(c, i)

SessionTable(cols, k) ==
    [n |-> SessionRows,
     col |-> [c \in cols |-> [i \in 1..SessionRows |-> SessionCell(c, i, k)]]]

SessionInit ==
    /\ data_dir = [f \in FileNames |-> NoFile]
    /\ AppStart
    /\ \E cols \in SessionColumns, extra \in SUBSET {"Month", "Hour"},
          k \in 1..Len(WDReadings) :
        data_file = SessionTable(cols \cup extra, k)
    /\ EdaStart

SessionNext ==
    \/ CallLoadData
    \/ CallSummaryStatistics
    \/ CallCleanData
    \/ CallTimeSeries
    \/ CallCleaningImpact
    \/ CallCorrelation
    \/ CallDistribution
    \/ CallTemperature
    \/ CallBubbleChart
    \/ CallMonthlyHourly
    \/ CallSaveCleanedData

SpecSession == SessionInit /\ [][SessionNext]_vars

\* the default specification is the one of app/utils.py
Spec == SpecApp

(***************************************************************************)
(* Properties of app/utils.py, checked under SpecApp                       *)
(***************************************************************************)
KnownCountries == {"Benin", "Sierra Leone", "Togo"}

CalledLoad == call.fn = "load_country_data"
CalledMetrics == call.fn = "get_country_metrics"

\* C1 as claimed: load_country_data with a country outside Benin, Sierra Leone,
\* Togo raises the lookup-key error and returns no table, whether or not a file
\* is uploaded.
C1_UnknownCountryAlwaysFails ==
    (CalledLoad /\ call.country \notin KnownCountries)
        => (~loaded.ok /\ loaded.exc = "KeyError")

\* C1 amended: without an uploaded file, load_country_data with a country outside
\* the three raises the lookup-key error and returns no table, whatever the data
\* folder holds; with an uploaded CSV file the country is not looked up and the
\* table of the uploaded file is returned.
C1_UnknownCountryFailsWithoutUpload ==
    (CalledLoad /\ call.country \notin KnownCountries) =>
        /\ call.uploaded_file = None => (~loaded.ok /\ loaded.exc = "KeyError")
        /\ call.uploaded_file.kind = "csv" =>
              (loaded.ok /\ loaded.value = call.uploaded_file.table)

C1_Witness ==
    /\ CalledLoad /\ call.country = "Mars" /\ call.uploaded_file = None
    /\ \E f \in FileNames : data_dir[f].kind = "csv"
    /\ ~loaded.ok /\ loaded.exc = "KeyError"

\* C2: load_country_data with one of the three countries, no uploaded file and no
\* file of that country in the data folder returns a table of zero rows and
\* raises nothing.
C2_MissingFileGivesEmptyTable ==
    (/\ CalledLoad /\ call.country \in KnownCountries /\ call.uploaded_file = None
     /\ data_dir[file_map[call.country]].kind = "absent")
        => (loaded.ok /\ loaded.value.n = 0 /\ IsEmpty(loaded.value))

C2_Witness ==
    /\ CalledLoad /\ call.country = "Togo" /\ call.uploaded_file = None
    /\ data_dir["togo_clean.csv"].kind = "absent"
    /\ data_dir["benin_clean.csv"].kind = "csv"
    /\ loaded.ok /\ loaded.value.n = 0

\* what the loader gives get_country_metrics for country c in the last call
LoadedFor(c) == load_country_data(c, data_dir, call.uploaded_files[c])
HasTable(c) == LoadedFor(c).ok
HasData(c) == HasTable(c) /\ ~(LoadedFor(c).value.n = 0 \/ Columns(LoadedFor(c).value) = {})
CountriesWithData == SelectSeq(countries, HasData)
RowCountries(rows) == [i \in 1..Len(rows) |-> rows[i].country]

\* C3: the table get_country_metrics returns has one row for each country whose
\* loaded table has data, in the order Benin, Sierra Leone, Togo, and no row for a
\* country whose table is empty; when every country's table is empty (file
\* missing or without rows) the call returns zero rows under the columns GHI, DNI,
\* DHI, country and does not fail.
C3_OneRowPerCountryWithData ==
    CalledMetrics =>
        /\ metrics.ok => RowCountries(metrics.value.rows) = CountriesWithData
        /\ (\A c \in KnownCountries : HasTable(c) /\ ~HasData(c)) =>
              /\ metrics.ok
              /\ metrics.value.rows = <<>>
              /\ metrics.value.columns = <<"GHI", "DNI", "DHI", "country">>

\* one country without a file, two with data: two rows
C3_Witness ==
    /\ CalledMetrics /\ call.uploaded_files = [c \in KnownCountries |-> None]
    /\ data_dir["sierraleone_clean.csv"].kind = "absent"
    /\ HasData("Benin") /\ HasData("Togo")
    /\ metrics.ok /\ RowCountries(metrics.value.rows) = <<"Benin", "Togo">>

\* C10 as claimed: get_country_metrics raises nothing, whichever of the columns
\* GHI, DNI, DHI the country tables hold.
C10_MissingColumnNeverFails ==
    (CalledMetrics /\ \A c \in KnownCountries : HasTable(c)) => metrics.ok

(***************************************************************************)
(* Properties of SolarEDA.clean_data, checked under SpecClean              *)
(***************************************************************************)
\* clean_data has run on the loaded table
Cleaned == df # <<>> /\ df_clean # <<>>

HasMissing(s) == \E i \in 1..Len(s) : IsNaN(s[i])
HasValue(s) == \E i \in 1..Len(s) : ~IsNaN(s[i])

\* a Timestamp cell that can be parsed: text that spells a time, or a number
\* of nanoseconds within the range of date-times
Parseable(c) == to_datetime(c).kind = "datetime"

\* the numbers of the raw rows the cleaned table keeps, in order: those whose
\* Timestamp, as the imputation leaves it, can be parsed
SurvivingRows(raw) ==
    SelectSeq([i \in 1..raw.n |-> i],
              LAMBDA i : "Timestamp" \in Columns(raw)
                            => Parseable(Impute(raw).col["Timestamp"][i]))

\* C4 as claimed: after clean_data every numeric column that had missing values
\* has none, and each cell that was missing holds the median of the column's
\* non-missing raw entries, a column of missing values alone included.
C4_MissingValuesGetMedian ==
    Cleaned =>
        \A c \in Columns(df[1]) :
            (IsNumericColumn(df[1].col[c]) /\ HasMissing(df[1].col[c])) =>
                \A j \in 1..df_clean[1].n :
                    /\ ~IsNaN(df_clean[1].col[c][j])
                    /\ IsNaN(df[1].col[c][SurvivingRows(df[1])[j]]) =>
                          df_clean[1].col[c][j] = Median(df[1].col[c])

\* C4 amended: after clean_data every numeric column that had missing values and
\* at least one value has no missing value; each cell that was missing holds the
\* median of the column's non-missing raw entries, clipped to the column's 1st and
\* 99th percentile when the column is in the outlier list (which changes the
\* median only when rows were dropped for their timestamp), and parsed to a
\* time when the column is Timestamp.  A numeric column of missing values alone
\* stays missing.
C4_MissingValuesGetClippedMedian ==
    Cleaned =>
        \A c \in Columns(df[1]) :
            LET raw == df[1].col[c]
                before == BeforeClip(df[1]).col[c]
                out == df_clean[1].col[c]
                expected == IF c \in OutlierColumns
                            THEN ClipCell(Median(raw), Quantile(before, 1), Quantile(before, 99))
                            ELSE IF c = "Timestamp" THEN to_datetime(Median(raw))
                            ELSE Median(raw)
            IN (IsNumericColumn(raw) /\ HasMissing(raw)) =>
                \A j \in 1..df_clean[1].n :
                    IF HasValue(raw)
                    THEN /\ ~IsNaN(out[j])
                         /\ IsNaN(raw[SurvivingRows(df[1])[j]]) =>
                               /\ out[j] = expected
                               /\ (df_clean[1].n = df[1].n /\ c # "Timestamp")
                                      => out[j] = Median(raw)
                    ELSE IsNaN(out[j])

\* a missing Tamb cell filled with the median 5.5 of 3 and 8, in a table that lost a row
C4_Witness ==
    /\ Cleaned
    /\ "Tamb" \in Columns(df[1]) /\ "Timestamp" \in Columns(df[1])
    /\ 0 < df_clean[1].n /\ df_clean[1].n < df[1].n
    /\ IsNaN(df[1].col["Tamb"][SurvivingRows(df[1])[1]])
    /\ Median(df[1].col["Tamb"]) = Num(11 * (Unit \div 2))
    /\ df_clean[1].col["Tamb"][1] = Num(11 * (Unit \div 2))

ColumnMin(s) == CHOOSE x \in {s[i].v : i \in 1..Len(s)} : \A i \in 1..Len(s) : x <= s[i].v
ColumnMax(s) == CHOOSE x \in {s[i].v : i \in 1..Len(s)} : \A i \in 1..Len(s) : x >= s[i].v

\* C5 as claimed: cleaning the cleaned table changes nothing.
C5_CleaningIsIdempotent ==
    Cleaned => clean_data(df_clean[1]).table = df_clean[1]

\* C5 amended: cleaning the cleaned table drops no row and changes no column
\* outside the outlier list (nothing is left to impute or to parse); the columns
\* of the outlier list are clipped again, to the percentiles of the clipped
\* column, which can move their values, and only inwards.
C5_RecleaningOnlyClipsAgain ==
    Cleaned =>
        LET once == df_clean[1]
            twice == clean_data(once).table
        IN /\ twice.n = once.n
           /\ Columns(twice) = Columns(once)
           /\ \A c \in Columns(once) \ OutlierColumns : twice.col[c] = once.col[c]
           /\ \A c \in Columns(once) \cap OutlierColumns :
                \A i \in 1..once.n :
                    IF IsNaN(once.col[c][i]) THEN IsNaN(twice.col[c][i])
                    ELSE /\ ~IsNaN(twice.col[c][i])
                         /\ ColumnMin(once.col[c]) <= twice.col[c][i].v
                         /\ twice.col[c][i].v <= ColumnMax(once.col[c])

\* a cleaned table with timestamps, Tamb and GHI whose GHI moves when cleaned again
C5_Witness ==
    /\ Cleaned
    /\ {"Timestamp", "GHI", "Tamb"} \subseteq Columns(df_clean[1])
    /\ df_clean[1].n >= 2
    /\ clean_data(df_clean[1]).table.col["GHI"] # df_clean[1].col["GHI"]
    /\ clean_data(df_clean[1]).table.col["Tamb"] = df_clean[1].col["Tamb"]

\* C6 as claimed: for each column of the outlier list the table has, every value
\* of the cleaned column lies within [P1, P99], the percentiles of the column
\* after imputation; a value that was above P99 equals P99, a value that was
\* below P1 equals P1, a value inside the range is unchanged.
C6_ClippedToImputedPercentiles ==
    Cleaned =>
        \A c \in Columns(df_clean[1]) \cap OutlierColumns :
            LET imputed == Impute(df[1]).col[c]
                after == df_clean[1].col[c]
                p1 == Quantile(imputed, 1)
                p99 == Quantile(imputed, 99)
            IN \A j \in 1..df_clean[1].n :
                LET was == imputed[SurvivingRows(df[1])[j]]
                IN IF IsNaN(was) THEN IsNaN(after[j])
                   ELSE /\ after[j].kind = "num"
                        /\ p1.v <= after[j].v /\ after[j].v <= p99.v
                        /\ was.v > p99.v => after[j] = p99
                        /\ was.v < p1.v => after[j] = p1
                        /\ (p1.v <= was.v /\ was.v <= p99.v) => after[j] = was

\* C6 amended: for each column of the outlier list the table has, every value of
\* the cleaned column lies within [P1, P99], the percentiles of the column after
\* imputation and after the rows with a timestamp that does not parse were
\* dropped; a value above P99 became P99, a value below P1 became P1, a value
\* inside the range is unchanged.
C6_ClippedToPercentiles ==
    Cleaned =>
        \A c \in Columns(df_clean[1]) \cap OutlierColumns :
            LET before == BeforeClip(df[1]).col[c]
                after == df_clean[1].col[c]
                p1 == Quantile(before, 1)
                p99 == Quantile(before, 99)
            IN /\ Len(after) = Len(before)
               /\ \A i \in 1..Len(before) :
                    IF IsNaN(before[i]) THEN IsNaN(after[i])
                    ELSE /\ after[i].kind = "num"
                         /\ p1.v <= after[i].v /\ after[i].v <= p99.v
                         /\ before[i].v > p99.v => after[i] = p99
                         /\ before[i].v < p1.v => after[i] = p1
                         /\ (p1.v <= before[i].v /\ before[i].v <= p99.v) => after[i] = before[i]

\* a GHI column with a value raised to P1, one lowered to P99 and one left alone
C6_Witness ==
    /\ Cleaned
    /\ "GHI" \in Columns(df_clean[1])
    /\ LET before == BeforeClip(df[1]).col["GHI"]
           after == df_clean[1].col["GHI"]
       IN \E i, j, k \in 1..Len(after) :
            /\ ~IsNaN(before[i]) /\ ~IsNaN(before[j]) /\ ~IsNaN(before[k])
            /\ before[i].v < after[i].v /\ after[i] = Quantile(before, 1)
            /\ before[j].v > after[j].v /\ after[j] = Quantile(before, 99)
            /\ before[k] = after[k]

\* C7 as claimed: with a Timestamp column, the cleaned table has the raw rows
\* less exactly those whose timestamp cannot be parsed (text that spells no
\* time or a time outside the range of date-times, a missing entry, a number
\* outside that range); each remaining row holds a parsed time; imputation,
\* outlier counting and clipping remove no row.
C7_RowsDroppedAreUnparseable ==
    (Cleaned /\ "Timestamp" \in Columns(df[1])) =>
        LET bad == {i \in 1..df[1].n : ~Parseable(df[1].col["Timestamp"][i])}
        IN /\ df_clean[1].n = df[1].n - Cardinality(bad)
           /\ Columns(df_clean[1]) = Columns(df[1])
           /\ \A c \in Columns(df_clean[1]) : Len(df_clean[1].col[c]) = df_clean[1].n
           /\ \A j \in 1..df_clean[1].n :
                df_clean[1].col["Timestamp"][j].kind = "datetime"

\* C8 as claimed: cleaning GHI = [100, 100, 100, 100, 10000] reports one outlier.
C8_ExampleReportsOneOutlier ==
    (Cleaned /\ df[1] = ExampleTable) => report["GHI"] = 1

\* C8 amended: cleaning GHI = [100, 100, 100, 100, 10000] reports no outlier (the
\* mean is 2080, the standard deviation 3960 and the z-score of 10000 exactly 2)
\* and caps 10000 at the 99th percentile 9604; ten readings of 100 and one of
\* 1000 report one outlier.
C8_ExampleReportsNoOutlier ==
    /\ (Cleaned /\ df[1] = ExampleTable) =>
          /\ report = [c \in {"GHI"} |-> 0]
          /\ df_clean[1].col["GHI"] =
                [i \in 1..5 |-> IF i = 5 THEN Num(9604 * Unit) ELSE Num(100 * Unit)]
    /\ (Cleaned /\ df[1] = LongTable) => report = [c \in {"GHI"} |-> 1]

C8_Witness ==
    /\ Cleaned /\ df[1] = ExampleTable
    /\ report["GHI"] = 0
    /\ df_clean[1].col["GHI"][5] = Num(9604 * Unit)

(***************************************************************************)
(* Properties of run_full_analysis, checked under SpecPipeline             *)
(***************************************************************************)
\* C9 as claimed: whichever of the expected columns the loaded table has, no
\* missing column ends run_full_analysis early: save_cleaned_data is reached.
C9_NoMissingColumnAborts ==
    pc # "raised"

(***************************************************************************)
(* Properties of a session of method calls, checked under SpecSession      *)
(***************************************************************************)
\* C11: once load_data has run, whatever sequence of clean_data, analysis
\* methods and save_cleaned_data is called, the raw table self.df is the table
\* that was loaded: same rows, same columns, same values.  Cleaning and
\* aggregation write to the cleaned table only.
C11_RawTableUnchanged ==
    df # <<>> => df[1] = data_file

\* cleaning, the aggregation that adds Month and Hour, a plot and the export
\* have all run, and the cleaned table differs from the raw one
C11_Witness ==
    /\ df # <<>>
    /\ df_clean # <<>>
    /\ df_clean[1] # df[1]
    /\ "Month" \in Columns(df_clean[1]) \ Columns(df[1])
    /\ plots # {}
    /\ output_file = <<to_csv(df_clean[1])>>

\* C12 as claimed: monthly_hourly_analysis only adds Month and Hour.  Every
\* column of the raw input, one named Month or Hour included, holds in the
\* cleaned table the values clean_data gave it.
C12_RawColumnsKeepTheirValues ==
    (df # <<>> /\ df_clean # <<>>) =>
        \A c \in Columns(df[1]) :
            df_clean[1].col[c] = clean_data(df[1]).table.col[c]

\* C13 as claimed: the wind rose has 12 bins of 30 degrees from 0 to 360, and
\* every row of the wind table with a direction in [0, 360] is in exactly one
\* bin's mean.
C13_EveryDirectionInOneBin ==
    wind_rose # <<>> =>
        LET w == wind_rose[1].wind
            bars == wind_rose[1].avg_ws
        IN /\ Len(bars) = 12
           /\ \A j \in 1..Len(bars) : bars[j].bin.right - bars[j].bin.left = 30
           /\ bars[1].bin.left = 0
           /\ bars[Len(bars)].bin.right = 360
           /\ \A i \in 1..w.n :
                (0 <= w.col["WD"][i].v /\ w.col["WD"][i].v <= 360 * Unit)
                    => Cardinality({j \in 1..Len(bars) : i \in bars[j].rows}) = 1

====
